---- MODULE Spec2Model ----
(***************************************************************************)
(* A model of the UQTOPUS study runner.                                    *)
(*                                                                         *)
(* Two copies of the runner exist in the repository and both are modelled: *)
(*   "flat"  src/src/uq_runner.py              (keys split on "/",         *)
(*           one render per parameter, os.chdir around the solver)         *)
(*   "pkg"   src/src/uqtopus/core/uq_runner.py (keys split on "__",        *)
(*           one render per template file, solver run with cwd=)           *)
(* The variable impl says which copy a behaviour runs.                     *)
(*                                                                         *)
(* Spec         a whole study: validation, dispatch over a process pool,   *)
(*              the per-task steps of every worker, the progress loop.     *)
(* FairSpec     Spec with the fairness the pool's scheduling gives.        *)
(* SamplerSpec  calls of generate_samples over bounded inputs.             *)
(* ReaderSpec   calls of the result readers of openfoam_tools over bounded *)
(*              field files, cases and studies.                            *)
(*                                                                         *)
(* Numbers: a design-matrix entry is a rational <<num, den>> with den > 0; *)
(* den = 0 stands for the NaN that numpy's 0.0/0 produces.                 *)
(***************************************************************************)
EXTENDS Integers, Sequences, FiniteSets, TLC

VARIABLES
    impl,       \* "flat" or "pkg": which copy of the runner is running
    entry,      \* "uq_simulation" or "run_uq_study"
    config,     \* the experiment configuration (Params / config)
    n_samples,  \* number of rows asked for
    X,          \* the design matrix the tasks are built from (<<>> before dispatch)
    phase,      \* "start", "running", "done", "aborted", "crashed"
    iparams,    \* the tasks still in the pool's task queue (sequence of indices)
    nthreads,   \* pool size
    outq,       \* results sent back by workers, not yet yielded to the parent loop
    reported,   \* reported[i]: how often the progress loop was stepped for task i
    wpc,        \* wpc[w]: the worker's position inside the current task
    wtask,      \* wtask[w]: index of the task the worker holds (-1: none)
    wcwd,       \* wcwd[w]: working directory of the worker process
    wcfg,       \* wcfg[w]: exp_config['experiment']['name'] of the task's exp_config
    task,       \* task[i]: what happened to sample i (directories, files, solver)
    sampler,    \* state of a direct generate_samples call (SamplerSpec)
    reader      \* state of a post-processing call of openfoam_tools (ReaderSpec)

vars == <<impl, entry, config, n_samples, X, phase, iparams, nthreads, outq, reported,
          wpc, wtask, wcwd, wcfg, task, sampler, reader>>

studyVars == <<impl, entry, config, n_samples, X, phase, iparams, nthreads, outq,
               reported, wpc, wtask, wcwd, wcfg, task>>

----------------------------------------------------------------------------
(* Bounds *)

MaxSamples == 2     \* largest n_samples of a study
MaxWorkers == 2     \* largest pool size (nthreads)
MaxDraw == 5        \* largest n_samples of a direct generate_samples call
MaxRnd == 1         \* number of distinct random outcomes, minus one

----------------------------------------------------------------------------
(* Small helpers *)

Min(a, b) == IF a < b THEN a ELSE b
Max(a, b) == IF a > b THEN a ELSE b

RECURSIVE Pow(_, _)
Pow(b, e) == IF e <= 0 THEN 1 ELSE b * Pow(b, e - 1)

----------------------------------------------------------------------------
(* Sampler: generate_samples and the pyDOE3 / numpy calls it makes.        *)
(* A unit design is a sequence of rows, a row a sequence of rationals.     *)

NaN == <<0, 0>>

\* the methods callers pass; "sobol" stands for any unknown name
Methods == {"lhs", "random", "grid", "fullfact", "plackett_burman",
            "box_behnken", "central_composite", "sobol"}

\* a result of generate_samples: a matrix, or the exception it raised
Ok(rows, cols) == [ok |-> TRUE, X |-> rows, ncols |-> cols, err |-> "none"]
Raise(e) == [ok |-> FALSE, X |-> <<>>, ncols |-> 0, err |-> e]

\* numpy basic slicing a[:n] on an array of len rows (negative n counts from the end)
SliceLen(len, n) == IF n >= 0 THEN Min(n, len) ELSE Max(len + n, 0)

\* a matrix of nrows x ncols whose entry at (r, c), 0-based, is e[r, c]
Matrix(nrows, ncols, e(_, _)) ==
    [r \in 1..nrows |-> [c \in 1..ncols |-> e(r - 1, c - 1)]]

\* pyDOE3.lhs(n, samples, criterion='centermaximin'): every column holds the
\* centres (2k+1)/(2*samples) of the samples strata, each exactly once, in an
\* order drawn from the random state (rnd picks the order: a rotation).
lhs(n, samples, rnd) ==
    Matrix(samples, n, LAMBDA r, c : <<2 * ((r + rnd * (c + 1)) % samples) + 1, 2 * samples>>)

\* np.random.random((n_samples, n_params)): entries in [0, 1)
np_random(samples, n, rnd) ==
    Matrix(samples, n, LAMBDA r, c : <<(r + c + rnd) % 4, 4>>)

\* int(np.ceil(n_samples ** (1/n_params))): the smallest L with L^n_params >= n_samples
RECURSIVE LevelsFrom(_, _, _)
LevelsFrom(L, samples, n) ==
    IF Pow(L, n) >= samples THEN L ELSE LevelsFrom(L + 1, samples, n)
n_levels(samples, n) == LevelsFrom(0, samples, n)

\* fullfact([L] * n) / (L - 1): row r holds the base-L digits of r, first factor
\* fastest; the division is numpy's, so with L = 1 every entry is 0.0/0 = NaN
fullfact_unit(L, n) ==
    Matrix(Pow(L, n), n,
           LAMBDA r, c : IF L = 1 THEN NaN ELSE <<(r \div Pow(L, c)) % L, L - 1>>)

\* number of 1 bits of r AND c: the sign pattern of a Sylvester Hadamard matrix
RECURSIVE BitsAnd(_, _)
BitsAnd(r, c) ==
    IF r = 0 \/ c = 0 THEN 0
    ELSE (IF r % 2 = 1 /\ c % 2 = 1 THEN 1 ELSE 0) + BitsAnd(r \div 2, c \div 2)

\* (pbdesign(n) + 1) / 2: 4*(n div 4 + 1) runs of -1/+1 levels, mapped to 0/1
pb_runs(n) == 4 * ((n \div 4) + 1)
pb_unit(n) ==
    Matrix(pb_runs(n), n,
           LAMBDA r, c : <<(BitsAnd(pb_runs(n) - 1 - r, c + 1) + 1) % 2, 1>>)

\* (ccdesign(n) + 1) / 2 before clipping: 2^n factorial runs at -1/+1, 4 centre
\* runs, 2n star runs at -a/+a on one axis (a > 1, taken as 3/2), 4 centre runs
cc_runs(n) == Pow(2, n) + 4 + 2 * n + 4
cc_raw(n) ==
    Matrix(cc_runs(n), n,
           LAMBDA r, c :
               IF r < Pow(2, n) THEN <<4 * ((r \div Pow(2, c)) % 2), 4>>
               ELSE IF r < Pow(2, n) + 4 THEN <<2, 4>>
               ELSE IF r < Pow(2, n) + 4 + 2 * n
                    THEN LET s == r - Pow(2, n) - 4
                         IN  IF s \div 2 # c THEN <<2, 4>>
                             ELSE IF s % 2 = 0 THEN <<-1, 4>> ELSE <<5, 4>>
               ELSE <<2, 4>>)

\* np.clip(u, 0, 1) on one entry
np_clip(u) == IF u[1] < 0 THEN <<0, u[2]>> ELSE IF u[1] > u[2] THEN <<u[2], u[2]>> ELSE u

\* (bbdesign(n) + 1) / 2: for each pair i < j of factors, in lexicographic order,
\* the four -1/+1 combinations with every other factor at 0, then the centre runs
\* (3 of them for n = 3 and n = 4, pyDOE3's default)
bb_npairs(n) == (n * (n - 1)) \div 2
bb_pair(n, k) ==
    CHOOSE p \in (0..(n - 1)) \X (0..(n - 1)) :
        /\ p[1] < p[2]
        /\ p[1] * n - ((p[1] * (p[1] + 1)) \div 2) + (p[2] - p[1] - 1) = k
bb_runs(n) == 4 * bb_npairs(n) + 3
bb_unit(n) ==
    Matrix(bb_runs(n), n,
           LAMBDA r, c :
               IF r >= 4 * bb_npairs(n) THEN <<1, 2>>
               ELSE LET p == bb_pair(n, r \div 4)
                        k == r % 4
                    IN  IF c = p[1] THEN <<k % 2, 1>>
                        ELSE IF c = p[2] THEN <<k \div 2, 1>>
                        ELSE <<1, 2>>)

\* unit_samples[:n_samples]
Truncate(rows, n) == SubSeq(rows, 1, SliceLen(Len(rows), n))

\* samples[:, i] = min_val + unit_samples[:, i] * (max_val - min_val)
Rescale(rows, param_ranges) ==
    [r \in DOMAIN rows |->
        [c \in DOMAIN rows[r] |->
            LET u == rows[r][c]
                min_val == param_ranges[c][1]
                max_val == param_ranges[c][2]
            IN  <<min_val * u[2] + u[1] * (max_val - min_val), u[2]>>]]

\* the unit design of a method, or the exception the library call raises
UnitDesign(samples, n, method, rnd) ==
    CASE method = "lhs" ->
             Ok(lhs(n, samples, rnd), n)
      [] method = "random" ->
             IF samples < 0 THEN Raise("ValueError")
             ELSE Ok(np_random(samples, n, rnd), n)
      [] method \in {"grid", "fullfact"} ->
             IF n = 0 THEN Raise("ZeroDivisionError")
             ELSE IF samples < 0 THEN Raise(IF n = 1 THEN "ValueError" ELSE "TypeError")
             ELSE Ok(Truncate(fullfact_unit(n_levels(samples, n), n), samples), n)
      [] method = "plackett_burman" ->
             Ok(Truncate(pb_unit(n), samples), n)
      [] method = "box_behnken" ->
             IF n < 3 THEN Raise("AssertionError")
             ELSE Ok(Truncate(bb_unit(n), samples), n)
      [] method = "central_composite" ->
             IF n < 2 THEN Raise("AssertionError")
             ELSE Ok(Truncate([r \in DOMAIN cc_raw(n) |->
                                  [c \in DOMAIN cc_raw(n)[r] |-> np_clip(cc_raw(n)[r][c])]],
                              samples), n)
      [] OTHER -> Raise("ValueError")

generate_samples(samples, param_ranges, method, rnd) ==
    LET unit == UnitDesign(samples, Len(param_ranges), method, rnd)
    IN  IF unit.ok THEN Ok(Rescale(unit.X, param_ranges), unit.ncols) ELSE unit

----------------------------------------------------------------------------
(* SamplerSpec: direct calls of generate_samples *)

MaxParams == 3      \* largest number of parameters of a sampled space

RangeSet == {<<0, 1>>, <<-2, 3>>}

ParamSpaces == UNION {[1..k -> RangeSet] : k \in 0..MaxParams}

\* the calls whose outcome numpy / pyDOE3 determine; lhs is called as the
\* library documents it (samples >= 1, at least one factor)
SamplerCalls ==
    {c \in [method : Methods, n_samples : (-1)..MaxDraw, param_ranges : ParamSpaces,
            rnd : 0..MaxRnd] :
        /\ c.method = "lhs" => c.n_samples >= 1
        /\ c.method \notin {"random", "grid", "fullfact", "sobol"} => Len(c.param_ranges) >= 1
        /\ c.method \notin {"lhs", "random"} => c.rnd = 0}

SamplerIdle ==
    [pc |-> "idle", method |-> "lhs", n_samples |-> 1, param_ranges |-> <<>>,
     rnd |-> 0, result |-> Raise("none")]

\* a caller invokes generate_samples(n_samples, param_ranges, method, seed)
CallGenerateSamples ==
    /\ sampler.pc = "idle"
    /\ \E c \in SamplerCalls :
          sampler' = [pc |-> "returned", method |-> c.method, n_samples |-> c.n_samples,
                      param_ranges |-> c.param_ranges, rnd |-> c.rnd,
                      result |-> generate_samples(c.n_samples, c.param_ranges,
                                                  c.method, c.rnd)]
    /\ UNCHANGED <<studyVars, reader>>

\* the caller drops the result
DropSamples ==
    /\ sampler.pc = "returned"
    /\ sampler' = SamplerIdle
    /\ UNCHANGED <<studyVars, reader>>

----------------------------------------------------------------------------
(* Field files and read_openfoam_field (openfoam_tools) *)

MaxCells == 3       \* largest declared element count and longest data block

\* the numbers written in field files
Values == {-2, 7}

\* A file is its lines, f.readlines(). A line is held as what the parser can
\* tell about it:
\*   "uniform"     "internalField uniform <v>;"            v: the literal, if any
\*   "nonuniform"  "internalField nonuniform List<...>"
\*   "bare"        "internalField" and nothing else on the line
\*   "int"         an integer literal alone on the line    v: <<n>>
\*   "scalar"      a float literal alone on the line       v: <<x>>
\*   "vector"      "(x y)"                                 v: <<x, y>>
\*   "("  ")"      the braces around a data block
\*   "junk"        a data line that is no number
\*   "text"        any other line (header, dimensions, ";")
Line(k, v) == [k |-> k, v |-> v]
Text == Line("text", <<>>)
Open == Line("(", <<>>)
Close == Line(")", <<>>)
Junk == Line("junk", <<>>)

\* open(file_path, 'r') raises for an unreadable (or missing) file
Unreadable == [readable |-> FALSE, content |-> <<>>]
File(content) == [readable |-> TRUE, content |-> content]

\* the parser's results: None, or a numpy array held as the sequence of its
\* entries (a scalar entry is <<x>>, a vector entry <<x, y>>)
None == [none |-> TRUE, values |-> <<>>]
Array(values) == [none |-> FALSE, values |-> values]

\* line.startswith('internalField')
startswith_internalField(line) == line.k \in {"uniform", "nonuniform", "bare"}

\* re.findall(r"[-+]?\d*\.\d+|\d+", field_info)[0] on an integer literal: the
\* first alternative needs a decimal point, so the second one matches the
\* digits and the sign is left out
FirstNumber(x) == IF x < 0 THEN -x ELSE x

\* content[a:b] for 0 <= a, 0 <= b
Slice(content, a, b) == SubSeq(content, a + 1, Min(b, Len(content)))

\* the body of the loop over the data lines: strip, strip('()'), then float()
\* of the line or of its pieces; a ValueError is printed and the line skipped
ParseLine(line) ==
    IF line.k \in {"scalar", "vector", "int"} THEN <<line.v>> ELSE <<>>

RECURSIVE ParseLines(_)
ParseLines(data) ==
    IF data = <<>> THEN <<>> ELSE ParseLine(Head(data)) \o ParseLines(Tail(data))

\* np.array(values): entries of different lengths make numpy raise ValueError,
\* which the enclosing try turns into None
np_array(values) ==
    IF \A a, b \in DOMAIN values : Len(values[a]) = Len(values[b])
    THEN Array(values) ELSE None

\* the data block taken right after the count line, the brace included
data_start_no_skip(start_index) == start_index + 2

\* content[start_index + 3 : ...]: the count line and one more line are skipped
data_start(start_index) == start_index + 3

\* read_openfoam_field(file_path); start_index is 0-based as in the code
read_openfoam_field(file) ==
    LET content == file.content
        marks == {i \in DOMAIN content : startswith_internalField(content[i])}
        start_index == (CHOOSE i \in marks : \A j \in marks : i <= j) - 1
        field_info == content[start_index + 1]
        count_line == content[start_index + 2]
        num_elements == count_line.v[1]
        data == Slice(content, data_start(start_index),
                      data_start(start_index) + num_elements)
    IN  IF ~file.readable THEN None                      \* OSError
        ELSE IF marks = {} THEN None                     \* StopIteration
        ELSE IF field_info.k = "bare" THEN None          \* IndexError
        ELSE IF field_info.k = "uniform"
             THEN IF field_info.v = <<>> THEN None       \* IndexError
                  ELSE Array(<< <<FirstNumber(field_info.v[1])>> >>)
        ELSE IF start_index + 2 > Len(content) THEN None \* IndexError
        ELSE IF count_line.k # "int" THEN None           \* ValueError
        ELSE np_array(ParseLines(data))

\* the field files a behaviour reads: a header line, then the field
Preamble == <<Text>>
FieldKinds == {"scalar", "vector"}
DataLines(kind) ==
    IF kind = "scalar" THEN {Line("scalar", <<x>>) : x \in Values} \cup {Junk}
    ELSE {Line("vector", <<7, -2>>), Line("vector", <<-2, -2>>), Junk}
Blocks(kind) == UNION {[1..m -> DataLines(kind)] : m \in 0..MaxCells}
NonuniformFile(count_line, block) ==
    File(Preamble \o <<Line("nonuniform", <<>>), count_line, Open>> \o block
             \o <<Close, Text>>)
UniformFile(x) == File(Preamble \o <<Line("uniform", <<x>>)>>)
FieldFiles ==
    {Unreadable, File(Preamble), File(Preamble \o <<Line("bare", <<>>)>>),
     File(Preamble \o <<Line("uniform", <<>>)>>),
     File(Preamble \o <<Line("nonuniform", <<>>)>>)}
    \cup {UniformFile(x) : x \in Values}
    \cup {NonuniformFile(Text, block) : block \in Blocks("scalar")}
    \cup {NonuniformFile(Line("int", <<n>>), block) :
              n \in 0..MaxCells, block \in Blocks("scalar") \cup Blocks("vector")}

\* the reader's state: pc says which call is under way and how far it is
ReaderIdle == [pc |-> "idle", arg |-> <<>>, raw |-> <<>>, all_data |-> <<>>, out |-> <<>>]

\* a caller reads one field file
ReadField ==
    /\ reader.pc = "idle"
    /\ \E f \in FieldFiles :
          reader' = [ReaderIdle EXCEPT !.pc = "field", !.arg = f,
                                       !.out = read_openfoam_field(f)]
    /\ UNCHANGED <<studyVars, sampler>>

\* the caller drops what a call returned or raised
DropResult ==
    /\ reader.pc \in {"field", "dataset", "raised", "combined"}
    /\ reader' = ReaderIdle
    /\ UNCHANGED <<studyVars, sampler>>

----------------------------------------------------------------------------
(* parse_openfoam_case and read_uq_experiment (openfoam_tools) *)

\* the requested fields
Variables == {"p", "U"}

\* A case directory: the time directories the call goes through (those of the
\* time_dirs argument or, without it, the case's own digit-named directories,
\* sorted), the field file of every time and variable (Unreadable when there
\* is none) and the number of cells of its mesh
Case(times, files, mesh) == [times |-> times, files |-> files, mesh |-> mesh]
TimeLists == {<<>>, <<0>>, <<0, 1>>}
TimesOf(times) == {times[k] : k \in DOMAIN times}

\* a well-formed non-uniform field file of ncell cells
GoodBlock(kind, ncell) ==
    [c \in 1..ncell |-> IF kind = "scalar" THEN Line("scalar", <<7>>)
                        ELSE Line("vector", <<7, -2>>)]
GoodFile(kind, ncell) == NonuniformFile(Line("int", <<ncell>>), GoodBlock(kind, ncell))

\* the field files met in the cases: a missing file, a uniform field, fields
\* of one, two and three cells, a vector field, and a field of three declared
\* cells of which one line is malformed
CaseFiles ==
    {Unreadable, UniformFile(7), GoodFile("scalar", 1), GoodFile("scalar", 2),
     GoodFile("vector", 2),
     NonuniformFile(Line("int", <<3>>),
                    <<Line("scalar", <<7>>), Junk, Line("scalar", <<-2>>)>>)}
    \cup {GoodFile("scalar", n) : n \in 3..MaxCells}
Cases ==
    UNION {{Case(times, files, mesh) :
                files \in [TimesOf(times) -> [Variables -> CaseFiles]],
                mesh \in 1..MaxCells} : times \in TimeLists}

\* the shape of a numpy array of entries: (n,) for scalars, (n, c) for vectors
Shape(values) ==
    IF values # <<>> /\ Len(values[1]) > 1
    THEN <<Len(values), Len(values[1])>> ELSE <<Len(values)>>

\* the first loop: all_data[time_dir][field_file] = read_openfoam_field(...),
\* which returns None and never raises
ReadAllFields(case) ==
    [t \in TimesOf(case.times) |->
        [f \in Variables |-> read_openfoam_field(case.files[t][f])]]

\* what max([len(all_data[t][f]) ...]) raises: len(None) is a TypeError, max
\* of an empty list a ValueError
LenRaises(all_data) ==
    IF \E t \in DOMAIN all_data : \E f \in Variables : all_data[t][f].none
    THEN "TypeError"
    ELSE IF DOMAIN all_data = {} THEN "ValueError" ELSE "none"

max_elements(all_data) ==
    CHOOSE m \in 0..(MaxCells + 1) :
        /\ \E t \in DOMAIN all_data : \E f \in Variables : Len(all_data[t][f].values) = m
        /\ \A t \in DOMAIN all_data : \A f \in Variables : Len(all_data[t][f].values) <= m

\* a field of one element left as the parser returned it
np_repeat_once(a, repeats) == a

\* np.repeat(a, repeats, axis=0): every entry repeats times, in order
np_repeat(a, repeats) ==
    [i \in 1..(Len(a) * repeats) |-> a[((i - 1) \div repeats) + 1]]

\* the second loop: fields of length one are repeated max_elements times
Broadcast(all_data) ==
    [t \in DOMAIN all_data |->
        [f \in Variables |->
            IF Len(all_data[t][f].values) = 1
            THEN Array(np_repeat(all_data[t][f].values, max_elements(all_data)))
            ELSE all_data[t][f]]]

\* what the third loop and xr.Dataset(...) raise: np.stack wants the arrays of
\* a variable to have one shape at all times; the Dataset wants one size for
\* the dimension 'cell' over all variables and the mesh coordinates, and one
\* size for 'component'
StackRaises(case, all_data) ==
    \E f \in Variables : \E s, t \in DOMAIN all_data :
        Shape(all_data[s][f].values) # Shape(all_data[t][f].values)
DatasetRaises(case, all_data) ==
    \E f, g \in Variables : \E s, t \in DOMAIN all_data :
        LET a == Shape(all_data[s][f].values)
            b == Shape(all_data[t][g].values)
        IN  \/ a[1] # case.mesh
            \/ Len(a) = 2 /\ Len(b) = 2 /\ a[2] # b[2]

\* results of parse_openfoam_case: an exception, or the dataset: its time
\* coordinate, the size of 'cell' and, per variable and time, the values
Raised(e) == [err |-> e, times |-> <<>>, ncell |-> 0, data |-> <<>>]
Dataset(times, ncell, data) == [err |-> "none", times |-> times, ncell |-> ncell, data |-> data]

BuildDataset(case, all_data) ==
    IF StackRaises(case, all_data) \/ DatasetRaises(case, all_data)
    THEN Raised("ValueError")
    ELSE Dataset(case.times, case.mesh,
                 [f \in Variables |-> [t \in DOMAIN all_data |-> all_data[t][f].values]])

\* parse_openfoam_case(case_dir, variables, time_dirs)
parse_openfoam_case(case) ==
    LET all_data == ReadAllFields(case)
    IN  IF LenRaises(all_data) # "none" THEN Raised(LenRaises(all_data))
        ELSE BuildDataset(case, Broadcast(all_data))

\* parse_openfoam_case, step by step: the fields are read ...
ParseCaseRead ==
    /\ reader.pc = "idle"
    /\ \E case \in Cases :
          reader' = [ReaderIdle EXCEPT !.pc = "read", !.arg = case,
                                       !.raw = ReadAllFields(case)]
    /\ UNCHANGED <<studyVars, sampler>>

\* ... the fields of one element are broadcast ...
ParseCaseBroadcast ==
    /\ reader.pc = "read"
    /\ IF LenRaises(reader.raw) # "none"
       THEN reader' = [reader EXCEPT !.pc = "raised", !.out = Raised(LenRaises(reader.raw))]
       ELSE reader' = [reader EXCEPT !.pc = "broadcast", !.all_data = Broadcast(reader.raw)]
    /\ UNCHANGED <<studyVars, sampler>>

\* ... and the dataset is built
ParseCaseBuild ==
    /\ reader.pc = "broadcast"
    /\ LET ds == BuildDataset(reader.arg, reader.all_data)
       IN  reader' = [reader EXCEPT !.pc = IF ds.err = "none" THEN "dataset" ELSE "raised",
                                    !.out = ds]
    /\ UNCHANGED <<studyVars, sampler>>

----------------------------------------------------------------------------
(* read_uq_experiment *)

\* the sample directories of a study to read: in every sample the solver wrote
\* the fields p and U (scalar fields here) of ncell cells at its time steps; a
\* sample may have stopped early, may have another mesh, or may lack a file
SampleCase(times, ncell, u) ==
    Case(times, [t \in TimesOf(times) |-> [f \in Variables |->
                    IF f = "U" THEN u ELSE GoodFile("scalar", ncell)]], ncell)
SampleCases ==
    {SampleCase(times, ncell, GoodFile("scalar", ncell)) :
        times \in TimeLists \ {<<>>}, ncell \in {2, 3}}
    \cup {SampleCase(<<0>>, 2, Unreadable)}
Studies == UNION {[1..n -> SampleCases] : n \in 1..MaxSamples}

\* the sorted union of the time coordinates (an outer join of the indexes)
RECURSIVE Sorted(_)
Sorted(S) ==
    IF S = {} THEN <<>>
    ELSE LET m == CHOOSE x \in S : \A y \in S : x <= y
         IN  <<m>> \o Sorted(S \ {m})

\* xr.concat(datasets, dim='sample') with its defaults (join='outer'): the
\* dimensions without an index ('cell') must have one size in all datasets;
\* the indexed dimension 'time' is aligned by an outer join, and a dataset
\* that lacks a time of the union is filled with NaN there (padded[i])
xr_concat(datasets) ==
    IF \E i, j \in DOMAIN datasets : datasets[i].ncell # datasets[j].ncell
    THEN [err |-> "ValueError", times |-> <<>>, samples |-> <<>>]
    ELSE LET all_times == UNION {TimesOf(datasets[i].times) : i \in DOMAIN datasets}
         IN  [err |-> "none",
              times |-> Sorted(all_times),
              samples |-> [i \in DOMAIN datasets |->
                              [data |-> datasets[i].data,
                               padded |-> all_times \ TimesOf(datasets[i].times)]]]

\* read_uq_experiment(case_dir, variables, n_samples): pool.imap over the
\* sample directories (an exception of parse_openfoam_case is raised again by
\* the iterator in the parent), then the concatenation
read_uq_experiment(study) ==
    LET results == [i \in DOMAIN study |-> parse_openfoam_case(study[i])]
        failed == {i \in DOMAIN study : results[i].err # "none"}
    IN  IF failed # {}
        THEN [err |-> results[CHOOSE i \in failed : \A j \in failed : i <= j].err,
              times |-> <<>>, samples |-> <<>>]
        ELSE xr_concat(results)

\* a caller reads a whole study
ReadUQExperiment ==
    /\ reader.pc = "idle"
    /\ \E study \in Studies :
          reader' = [ReaderIdle EXCEPT !.pc = "combined", !.arg = study,
                                       !.out = read_uq_experiment(study)]
    /\ UNCHANGED <<studyVars, sampler>>

----------------------------------------------------------------------------
(* Paths, parameter keys and the templates of the base case *)

\* the process's working directory when the study starts, and where the base
\* case really is (absolute paths, one string per segment)
StartDir == <<"proj", "src">>
BaseLocation == <<"proj", "base_case">>

\* os.path resolution of a relative path against a working directory
RECURSIVE Join(_, _)
Join(cwd, rel) ==
    IF rel = <<>> THEN cwd
    ELSE IF Head(rel) = ".."
         THEN Join(IF cwd = <<>> THEN cwd ELSE SubSeq(cwd, 1, Len(cwd) - 1), Tail(rel))
         ELSE Join(Append(cwd, Head(rel)), Tail(rel))

\* f"{i:03d}"
Pad3(i) ==
    IF i < 10 THEN "00" \o ToString(i)
    ELSE IF i < 100 THEN "0" \o ToString(i) ELSE ToString(i)

\* a parameter key is a string, held as its tokens (names and separators);
\* key.split(sep) cuts it at every token equal to sep
RECURSIVE Split(_, _, _)
Split(key, sep, cur) ==
    IF key = <<>> THEN <<cur>>
    ELSE IF Head(key) = sep THEN <<cur>> \o Split(Tail(key), sep, "")
    ELSE Split(Tail(key), sep, cur \o Head(key))

Separator(i) == IF i = "flat" THEN "/" ELSE "__"

\* the templates of the base case: relative path -> the placeholders it references
TemplateFiles == {<<"constant", "transport">>, <<"setup">>}
Placeholders(path) == IF path = <<"setup">> THEN {"U"} ELSE {"K", "phi"}

\* what an undefined placeholder renders to (jinja2's default Undefined)
Empty == <<>>

\* the parameter keys of a study, by layout, written with separator sep
KeyLayouts == {"two_in_one_file", "two_files", "one_segment"}
Keys(layout, sep) ==
    CASE layout = "two_in_one_file" ->
             << <<"constant", sep, "transport", sep, "K">>,
                <<"constant", sep, "transport", sep, "phi">> >>
      [] layout = "two_files" ->
             << <<"setup", sep, "U">>, <<"constant", sep, "transport", sep, "K">> >>
      [] OTHER ->
             << <<"setup", sep, "U">>, <<"K">> >>

----------------------------------------------------------------------------
(* The study's inputs *)

Impls == {"flat", "pkg"}
Entries == {"uq_simulation", "run_uq_study"}
Workers == 1..MaxWorkers
Tasks == 0..(MaxSamples - 1)

\* the configurations: a complete one (base case given by an absolute or a
\* relative path) with any key layout, or one with a single study-level defect
Configs ==
    {c \in [base : {"abs", "rel", "missing_dir", "no_key"},
            solver_key : BOOLEAN, ranges_key : BOOLEAN, layout : KeyLayouts] :
        \/ c.base \in {"abs", "rel"} /\ c.solver_key /\ c.ranges_key
        \/ /\ c.layout = "two_in_one_file"
           /\ \/ c.base \in {"missing_dir", "no_key"} /\ c.solver_key /\ c.ranges_key
              \/ c.base = "abs" /\ ~(c.solver_key /\ c.ranges_key) /\ (c.solver_key \/ c.ranges_key)}

\* exp_config['experiment']['name'] as the caller gave it
StudyName == <<"N">>

\* list(config['parameter_ranges'].keys()) and the ranges themselves
ParamKeys == Keys(config.layout, Separator(impl))
ParamRanges == [k \in DOMAIN ParamKeys |-> <<0, k>>]

\* exp_config['experiment']['base_case_dir'] resolved against a working directory
BaseDir(cwd) ==
    CASE config.base = "abs" -> BaseLocation
      [] config.base = "rel" -> Join(cwd, <<"..", "base_case">>)
      [] OTHER -> <<"proj", "nowhere">>

\* the design matrix of the study: run_uq_study draws it with method 'lhs'
\* and seed 42; uq_simulation receives it from its caller
DesignMatrix == generate_samples(n_samples, ParamRanges, "lhs", 0)

\* the experiments directory the study is meant to fill
SampleDir(i) == <<"proj", "experiments">> \o StudyName \o <<"sample_" \o Pad3(i)>>

----------------------------------------------------------------------------
(* Template rendering inside run_simulation *)

\* template.render(values, undefined=StrictUndefined) on an Environment built
\* without undefined=: a placeholder with no value renders empty
RenderTemplate(path, values) ==
    [v \in Placeholders(path) |-> IF v \in DOMAIN values THEN values[v] ELSE Empty]

RenderState(files, err) == [files |-> files, err |-> err]

\* flat: one get_template / render / open(..., 'w') per parameter key, in the
\* order of params.items(). loader: the base case is found from the working
\* directory; tree: the target holds the sub-directories of the case
RECURSIVE RenderEachKey(_, _, _, _, _, _)
RenderEachKey(keys, row, k, loader, tree, files) ==
    IF k > Len(keys) THEN RenderState(files, "none")
    ELSE LET path_parts == Split(keys[k], "/", "")
             param == path_parts[Len(path_parts)]
             template_path == SubSeq(path_parts, 1, Len(path_parts) - 1)
         IN  IF Len(path_parts) < 2 THEN RenderState(files, "ValueError")
             ELSE IF ~loader \/ template_path \notin TemplateFiles
                  THEN RenderState(files, "TemplateNotFound")
             ELSE IF Len(template_path) > 1 /\ ~tree
                  THEN RenderState(files, "FileNotFoundError")
             ELSE RenderEachKey(keys, row, k + 1, loader, tree,
                      (template_path :> RenderTemplate(template_path, param :> row[k]))
                          @@ files)

\* pkg: the pieces of a key, param_path.split('__')
KeyParts(keys, k) == Split(keys[k], "__", "")
KeyParam(keys, k) == KeyParts(keys, k)[Len(KeyParts(keys, k))]
KeyPath(keys, k) == SubSeq(KeyParts(keys, k), 1, Len(KeyParts(keys, k)) - 1)

\* pkg: paths_n_vars[path], the parameters of one template path; a name given
\* twice keeps its last value, as a dict does
GroupVars(keys, row, path) ==
    LET of_path == {k \in DOMAIN keys : KeyPath(keys, k) = path}
    IN  [v \in {KeyParam(keys, k) : k \in of_path} |->
            row[CHOOSE k \in of_path :
                    /\ KeyParam(keys, k) = v
                    /\ \A j \in of_path : KeyParam(keys, j) = v => j <= k]]

\* pkg: the first pass raises on a key of fewer than two segments, before
\* anything is rendered; the second renders each template path once with all
\* its parameters, in the order the paths were first met, up to the first
\* template the loader does not find;
\* target_path.parent.mkdir(parents=True, exist_ok=True) makes the write succeed
RenderGrouped(keys, row, loader, files) ==
    LET first(path) == CHOOSE k \in DOMAIN keys :
                           /\ KeyPath(keys, k) = path
                           /\ \A j \in DOMAIN keys : KeyPath(keys, j) = path => k <= j
        paths == {KeyPath(keys, k) : k \in DOMAIN keys}
        lost == {q \in paths : ~loader \/ q \notin TemplateFiles}
        written == {q \in paths : \A b \in lost : first(q) < first(b)}
    IN  IF \E k \in DOMAIN keys : Len(KeyParts(keys, k)) < 2
        THEN RenderState(files, "ValueError")
        ELSE RenderState([q \in written \cup DOMAIN files |->
                             IF q \in written
                             THEN RenderTemplate(q, GroupVars(keys, row, q))
                             ELSE files[q]],
                         IF lost = {} THEN "none" ELSE "TemplateNotFound")

\* the rendering part of run_simulation of either copy
Render(i, keys, row, loader, tree, files) ==
    IF i = "flat" THEN RenderEachKey(keys, row, 1, loader, tree, files)
    ELSE RenderGrouped(keys, row, loader, files)

----------------------------------------------------------------------------
(* The study: validation and dispatch *)

NoTask == -1

\* a worker between two tasks holds no exp_config: the one a task unpickled
\* is dropped when the task function returns
NoConfig == <<>>

TaskInit ==
    [dir |-> <<>>,          \* the directory run_simulation used as new_dir
     copy |-> "none",       \* outcome of the rsync replication
     files |-> <<>>,        \* rendered files written under dir: path -> content
     wrote |-> {},          \* absolute paths the task created or wrote to
     runs |-> 0,            \* how often the solver was executed for the sample
     exit |-> -1,           \* the solver's exit status (-1: not run)
     err |-> "none",        \* the exception that ended run_simulation
     printed |-> {},        \* what the task printed
     returned |-> "pending"]\* what the pool got back for the task

Init ==
    /\ impl \in Impls
    /\ entry \in Entries
    /\ config \in Configs
    /\ n_samples \in 1..MaxSamples
    /\ X = <<>>
    /\ nthreads \in Workers
    /\ phase = "start"
    /\ iparams = <<>>
    /\ outq = {}
    /\ reported = [i \in Tasks |-> 0]
    /\ wpc = [w \in Workers |-> "idle"]
    /\ wtask = [w \in Workers |-> NoTask]
    /\ wcwd = [w \in Workers |-> StartDir]
    /\ wcfg = [w \in Workers |-> NoConfig]
    /\ task = [i \in Tasks |-> TaskInit]
    /\ sampler = SamplerIdle
    /\ reader = ReaderIdle

\* list(enumerate([dict(zip(keys, x)) for x in X])): the indices of the rows
Enumerate(rows) == [k \in 1..Len(rows) |-> k - 1]

\* the validation block of uq_simulation: TRUE when it raises
ValidationRaises ==
    \/ ~config.ranges_key
    \/ ~config.solver_key
    \/ config.base = "no_key"
    \/ BaseDir(StartDir) # BaseLocation

\* uq_simulation(X, Params)
uq_simulation ==
    /\ phase = "start"
    /\ entry = "uq_simulation"
    /\ IF ValidationRaises
       THEN /\ phase' = "aborted"
            /\ UNCHANGED <<X, iparams>>
       ELSE /\ phase' = "running"
            /\ X' = DesignMatrix.X
            /\ iparams' = Enumerate(DesignMatrix.X)
    /\ UNCHANGED <<impl, entry, config, n_samples, nthreads, outq, reported,
                   wpc, wtask, wcwd, wcfg, task, sampler, reader>>

\* run_uq_study(config_file, n_samples): only config['parameter_ranges'] is
\* read before the pool is started
run_uq_study ==
    /\ phase = "start"
    /\ entry = "run_uq_study"
    /\ IF ~config.ranges_key \/ ~DesignMatrix.ok
       THEN /\ phase' = "aborted"
            /\ UNCHANGED <<X, iparams>>
       ELSE /\ phase' = "running"
            /\ X' = DesignMatrix.X
            /\ iparams' = Enumerate(DesignMatrix.X)
    /\ UNCHANGED <<impl, entry, config, n_samples, nthreads, outq, reported,
                   wpc, wtask, wcwd, wcfg, task, sampler, reader>>

----------------------------------------------------------------------------
(* The pool's workers *)

\* the exp_config a task function is called with: the partial is pickled with
\* every task, so each call unpickles the parent's (never modified) Params
TaskConfig(w) == StudyName

\* the task function without its try/except: an exception leaves it
process_simulation_reraises(exc) == FALSE

\* try: run_simulation(...) except Exception as e: print(...)
\* TRUE when the task function returns normally although exc was raised
process_simulation_catches(exc) == TRUE

\* the end of _process_simulation: the worker sends the task's result back
TaskEnds(w, t, exc) ==
    LET caught == exc = "none" \/ process_simulation_catches(exc)
    IN  /\ task' = [task EXCEPT ![wtask[w]] =
                      [t EXCEPT !.err = exc,
                                !.printed = IF exc # "none" /\ caught
                                            THEN @ \cup {"Error in sample"} ELSE @,
                                !.returned = IF caught THEN "None" ELSE "raised"]]
        /\ outq' = outq \cup {[idx |-> wtask[w], ok |-> caught]}
        /\ wpc' = [wpc EXCEPT ![w] = "idle"]
        /\ wtask' = [wtask EXCEPT ![w] = NoTask]
        /\ wcfg' = [wcfg EXCEPT ![w] = NoConfig]

\* a worker takes the next task of the queue and enters _process_simulation,
\* which rewrites exp_config['experiment']['name']
process_simulation(w) ==
    /\ phase = "running"
    /\ w <= nthreads
    /\ wpc[w] = "idle"
    /\ iparams # <<>>
    /\ wtask' = [wtask EXCEPT ![w] = Head(iparams)]
    /\ iparams' = Tail(iparams)
    /\ wcfg' = [wcfg EXCEPT ![w] = Append(TaskConfig(w), "sample_" \o Pad3(Head(iparams)))]
    /\ wpc' = [wpc EXCEPT ![w] = "materialize"]
    /\ UNCHANGED <<impl, entry, config, n_samples, X, nthreads, phase, outq, reported,
                   wcwd, task, sampler, reader>>

\* new_dir = "../experiments/" + name, a relative path: every use resolves it
\* against the working directory of the worker process
NewDir(w) == Join(wcwd[w], <<"..", "experiments">> \o wcfg[w])

\* what rsync can do when its source exists: exit 0; or a non-zero exit that
\* leaves the target with the files of a case (a partial transfer, or a case
\* left by an earlier run); or a non-zero exit that leaves the target an empty
\* directory. When the source path does not resolve to the base case, rsync
\* exits non-zero and the freshly made target stays empty
CopyOutcomes(w) ==
    IF BaseDir(wcwd[w]) = BaseLocation
    THEN {"copied", "failed_stale", "failed_empty"}
    ELSE {"no_source"}

\* the target holds the sub-directories and the solver script of a case
HasCaseFiles(copy) == copy \in {"copied", "failed_stale"}

\* prefix order of absolute paths: p is d or lies under d
IsUnder(p, d) == Len(p) >= Len(d) /\ SubSeq(p, 1, Len(d)) = d

\* a template rendered in place: the output goes back to where it was loaded from
RenderTarget_in_place(new_dir, base_dir, template_path) == base_dir \o template_path

\* open(os.path.join(new_dir, template_path), 'w'): where a rendered file goes
RenderTarget(new_dir, base_dir, template_path) == new_dir \o template_path

\* run_simulation up to the solver block: makedirs and rsync of the base
\* case (a CalledProcessError is printed and the function goes on), then the
\* templates are rendered into new_dir
Materialize(w) ==
    /\ phase = "running"
    /\ wpc[w] = "materialize"
    /\ IF config.base = "no_key"
       THEN /\ TaskEnds(w, task[wtask[w]], "KeyError")
       ELSE \E outcome \in CopyOutcomes(w) :
              LET t == [task[wtask[w]] EXCEPT
                          !.dir = NewDir(w),
                          !.copy = outcome,
                          !.printed = IF outcome = "copied" THEN @
                                      ELSE @ \cup {"Error copying the files"}]
                  r == Render(impl, ParamKeys, X[wtask[w] + 1],
                              BaseDir(wcwd[w]) = BaseLocation, HasCaseFiles(outcome),
                              t.files)
                  \* makedirs and rsync write the target; every rendered file is
                  \* written where RenderTarget says
                  u == [t EXCEPT !.files = r.files,
                                 !.wrote = @ \cup {NewDir(w)} \cup
                                     {RenderTarget(NewDir(w), BaseDir(wcwd[w]), q) :
                                          q \in DOMAIN r.files}]
              IN  IF r.err # "none"
                  THEN TaskEnds(w, u, r.err)
                  ELSE /\ task' = [task EXCEPT ![wtask[w]] = u]
                       /\ wpc' = [wpc EXCEPT ![w] = "solve"]
                       /\ UNCHANGED <<outq, wtask, wcfg>>
    /\ UNCHANGED <<impl, entry, config, n_samples, X, nthreads, phase, iparams, reported,
                   wcwd, sampler, reader>>

\* the working directory after the solver block: flat does os.chdir(new_dir)
\* and goes back only on the line after a successful subprocess.run; pkg
\* passes cwd=new_dir to the subprocess and never moves
CwdAfterSolver(i, cwd, new_dir, completed) ==
    IF i = "flat" /\ ~completed THEN new_dir ELSE cwd

\* run_simulation, third part: the solver script is run in new_dir
RunSolver(w) ==
    /\ phase = "running"
    /\ wpc[w] = "solve"
    /\ LET t == task[wtask[w]]
       IN  IF ~config.solver_key
           THEN /\ TaskEnds(w, t, "KeyError")
                /\ wcwd' = [wcwd EXCEPT ![w] = CwdAfterSolver(impl, @, t.dir, FALSE)]
           ELSE IF ~HasCaseFiles(t.copy)
           THEN /\ TaskEnds(w, t, "FileNotFoundError")
                /\ wcwd' = [wcwd EXCEPT ![w] = CwdAfterSolver(impl, @, t.dir, FALSE)]
           ELSE \E status \in {0, 1} :
                /\ TaskEnds(w, [t EXCEPT !.runs = @ + 1,
                                         !.exit = status,
                                         !.wrote = @ \cup {t.dir},
                                         !.printed = IF status = 0 THEN @
                                                     ELSE @ \cup {"Error running the script"}],
                            "none")
                /\ wcwd' = [wcwd EXCEPT ![w] = CwdAfterSolver(impl, @, t.dir, status = 0)]
    /\ UNCHANGED <<impl, entry, config, n_samples, X, nthreads, phase, iparams, reported,
                   sampler, reader>>

----------------------------------------------------------------------------
(* The parent's progress loop *)

\* one iteration of "for _ in tqdm(pool.imap_unordered(...))": the next result,
\* in completion order; a task function that raised makes the iterator raise,
\* which leaves the with block and terminates the pool
Report ==
    /\ phase = "running"
    /\ \E r \in outq :
         /\ outq' = outq \ {r}
         /\ IF r.ok
            THEN /\ reported' = [reported EXCEPT ![r.idx] = @ + 1]
                 /\ UNCHANGED phase
            ELSE /\ phase' = "crashed"
                 /\ UNCHANGED reported
    /\ UNCHANGED <<impl, entry, config, n_samples, X, nthreads, iparams,
                   wpc, wtask, wcwd, wcfg, task, sampler, reader>>

NTasks == Len(X)
Reports == {i \in Tasks : reported[i] > 0}

\* the iterator is exhausted after len(iparams) results: the loop ends
Finish ==
    /\ phase = "running"
    /\ Cardinality(Reports) = NTasks
    /\ phase' = "done"
    /\ UNCHANGED <<impl, entry, config, n_samples, X, nthreads, iparams, outq, reported,
                   wpc, wtask, wcwd, wcfg, task, sampler, reader>>

----------------------------------------------------------------------------
(* Specifications *)

Next ==
    \/ uq_simulation
    \/ run_uq_study
    \/ Report
    \/ Finish
    \/ \E w \in Workers : process_simulation(w)
    \/ \E w \in Workers : RunSolver(w)
    \/ \E w \in Workers : Materialize(w)

Spec == Init /\ [][Next]_vars

\* every process that can take a step eventually takes one: the workers are
\* operating-system processes, rsync and the solver return, the parent loop runs
FairSpec == Spec /\ WF_vars(Next)

SamplerNext == CallGenerateSamples \/ DropSamples

SamplerInit ==
    /\ impl = "flat"
    /\ entry = "uq_simulation"
    /\ config = [base |-> "abs", solver_key |-> TRUE, ranges_key |-> TRUE,
                 layout |-> "two_files"]
    /\ n_samples = 1
    /\ X = <<>>
    /\ nthreads = 1
    /\ phase = "start"
    /\ iparams = <<>>
    /\ outq = {}
    /\ reported = [i \in Tasks |-> 0]
    /\ wpc = [w \in Workers |-> "idle"]
    /\ wtask = [w \in Workers |-> NoTask]
    /\ wcwd = [w \in Workers |-> StartDir]
    /\ wcfg = [w \in Workers |-> NoConfig]
    /\ task = [i \in Tasks |-> TaskInit]
    /\ sampler = SamplerIdle
    /\ reader = ReaderIdle

SamplerSpec == SamplerInit /\ [][SamplerNext]_vars

ReaderNext ==
    \/ ReadField
    \/ ParseCaseRead
    \/ ParseCaseBroadcast
    \/ ParseCaseBuild
    \/ ReadUQExperiment
    \/ DropResult

\* the readers run on their own, after a study: the study's variables rest
ReaderSpec == SamplerInit /\ [][ReaderNext]_vars

----------------------------------------------------------------------------
(* Claims about the orchestration *)

Dispatched == 0..(NTasks - 1)

CompleteConfig ==
    /\ config.base \in {"abs", "rel"}
    /\ config.solver_key
    /\ config.ranges_key
    /\ config.layout # "one_segment"

Returned(i) == task[i].returned # "pending"

\* C2: a failure of one task does not make any other task fail: with a
\* complete configuration, every task that has ended and whose own replication
\* did not leave its target empty has its templates rendered and its solver
\* run once, whatever the tasks before it on the same worker did.
C2_FailureStaysInItsTask ==
    CompleteConfig =>
        \A i \in Tasks :
            Returned(i) /\ task[i].copy # "failed_empty" =>
                /\ DOMAIN task[i].files # {}
                /\ task[i].runs = 1

\* C3: task i writes only into experiments/<study_name>/sample_<i:03d>, named
\* from the original study name, and no two tasks use the same directory.
C3_TaskWritesOnlyItsSampleDir ==
    /\ \A i \in Tasks : task[i].dir # <<>> => task[i].dir = SampleDir(i)
    /\ \A i, j \in Tasks : i # j /\ task[i].dir # <<>> => task[i].dir # task[j].dir

\* C4: a solver that exits with a non-zero status makes the task's outcome a
\* failure recorded for that index (what the pool gets back for the task is
\* not the None of a successful task), and the solver was run once.
C4_SolverFailureIsRecorded ==
    \A i \in Tasks :
        Returned(i) /\ task[i].exit > 0 =>
            /\ task[i].returned # "None"
            /\ task[i].runs = 1

\* C5: when the replication of the base case fails, no template is rendered
\* into the target directory and the solver is not executed for the sample.
C5_ReplicationFailureEndsTask ==
    \A i \in Tasks :
        task[i].copy \in {"failed_stale", "failed_empty", "no_source"} =>
            /\ DOMAIN task[i].files = {}
            /\ task[i].runs = 0

\* C6: a study-level configuration error (a missing required key, a base case
\* directory that does not exist) aborts the study before any task is
\* dispatched, for both entry points.
ConfigError ==
    \/ config.base \in {"no_key", "missing_dir"}
    \/ ~config.solver_key
    \/ ~config.ranges_key
C6_ConfigErrorAbortsBeforeDispatch ==
    ConfigError => phase \in {"start", "aborted"} /\ iparams = <<>>

\* C10: the parameters of one sample that target the same template file all
\* appear, with their supplied values, in the file written under the target.
KeySegments(k) == Split(ParamKeys[k], Separator(impl), "")
KeyFile(k) == SubSeq(KeySegments(k), 1, Len(KeySegments(k)) - 1)
KeyName(k) == KeySegments(k)[Len(KeySegments(k))]
C10_EveryParameterOfAFileIsRendered ==
    CompleteConfig =>
        \A i \in Tasks :
            Returned(i) /\ task[i].err = "none" =>
                \A k \in DOMAIN ParamKeys :
                    /\ KeyFile(k) \in DOMAIN task[i].files
                    /\ task[i].files[KeyFile(k)][KeyName(k)] = X[i + 1][k]

----------------------------------------------------------------------------
(* Claims about the sampler (SamplerSpec) *)

SamplerReturned == sampler.pc = "returned" /\ sampler.result.ok

\* min_i <= v <= max_i for a rational v; NaN is in no range
InRange(v, range) == v[2] > 0 /\ range[1] * v[2] <= v[1] /\ v[1] <= range[2] * v[2]

\* C7: for every supported method and every n_samples >= 1, each entry of
\* column i of the generated matrix lies within [min_i, max_i].
C7_EntriesWithinRanges ==
    SamplerReturned /\ sampler.n_samples >= 1 /\ Len(sampler.param_ranges) >= 1 =>
        \A r \in DOMAIN sampler.result.X :
            \A c \in DOMAIN sampler.result.X[r] :
                InRange(sampler.result.X[r][c], sampler.param_ranges[c])

\* C8: for every supported method and every n_samples >= 1, the generated
\* matrix has exactly n_samples rows and n_params columns.
C8_ShapeIsSamplesByParams ==
    SamplerReturned /\ sampler.n_samples >= 1 /\ Len(sampler.param_ranges) >= 1 =>
        /\ Len(sampler.result.X) = sampler.n_samples
        /\ \A r \in DOMAIN sampler.result.X :
               Len(sampler.result.X[r]) = Len(sampler.param_ranges)

\* C9: generate fails (raises, whatever the exception is called) when
\* n_samples < 1 and when the space has no parameter; no matrix is returned.
C9_BadInputsAreRejected ==
    sampler.pc = "returned" /\ sampler.method # "sobol" =>
        /\ sampler.n_samples < 1 => ~sampler.result.ok
        /\ Len(sampler.param_ranges) = 0 => ~sampler.result.ok

----------------------------------------------------------------------------
(* Further claims about a study (Spec) *)

\* C11: rendering a template fails, and writes no file, whenever the template
\* references a placeholder that got no value and whenever a supplied
\* parameter has no placeholder in its file: so every file a task wrote has a
\* value in each of its placeholders, and every parameter of a task that
\* rendered without error names a placeholder of its file.
C11_RenderingIsStrict ==
    \A i \in Tasks :
        /\ \A q \in DOMAIN task[i].files :
               \A v \in Placeholders(q) : task[i].files[q][v] # Empty
        /\ task[i].files # <<>> /\ task[i].err = "none" =>
               \A k \in DOMAIN ParamKeys : KeyName(k) \in Placeholders(KeyFile(k))

\* C17: no operation of a study creates, modifies or deletes a file under the
\* base case directory: every path a task wrote to lies outside it.
C17_BaseCaseIsNeverWritten ==
    \A i \in Tasks : \A p \in task[i].wrote : ~IsUnder(p, BaseLocation)

C17_Witness ==
    /\ phase = "done"
    /\ NTasks >= 2
    /\ nthreads >= 2
    /\ \A i \in Dispatched :
           /\ task[i].copy = "copied"
           /\ task[i].files # <<>>
           /\ task[i].runs = 1
           /\ \E p \in task[i].wrote : Len(p) > Len(task[i].dir)

\* C18: in the flat runner the working directory of a worker process after
\* run_simulation ended is the one it had when the task began, whether the
\* solver succeeded or exited with a non-zero status.
C18_CwdRestoredAfterRunSimulation ==
    [][impl = "flat" =>
          \A w \in Workers :
              wpc[w] # "idle" /\ wpc'[w] = "idle" => wcwd'[w] = wcwd[w]]_vars

----------------------------------------------------------------------------
(* Claims about the field parser (ReaderSpec) *)

\* the field file a reader call is about, read independently of the parser:
\* its marker line, the line after it, and the lines between the braces
FieldContent == reader.arg.content
MarkerLines == {i \in DOMAIN FieldContent : FieldContent[i].k \in {"uniform", "nonuniform", "bare"}}
MarkerAt == CHOOSE i \in MarkerLines : \A j \in MarkerLines : i <= j
IsNonuniform == MarkerLines # {} /\ FieldContent[MarkerAt].k = "nonuniform"
HasCountLine == IsNonuniform /\ MarkerAt < Len(FieldContent)
DeclaredCount == FieldContent[MarkerAt + 1].v[1]
CountIsInteger == HasCountLine /\ FieldContent[MarkerAt + 1].k = "int"
OpenAt == CHOOSE i \in DOMAIN FieldContent : FieldContent[i] = Open
CloseAt == CHOOSE i \in DOMAIN FieldContent : FieldContent[i] = Close
DataBlock == SubSeq(FieldContent, OpenAt + 1, CloseAt - 1)
IsNumberLine(line) == line.k \in {"scalar", "vector"}
Unparsable == {i \in DOMAIN DataBlock : ~IsNumberLine(DataBlock[i])}

\* C12: the parser returns None (and does not raise, nor return a shorter
\* array) for an unreadable file, a file with no internalField line, a count
\* line that is no integer, and a data block of fewer lines than the count.
C12_ParserFailsWithNone ==
    reader.pc = "field" =>
        ((\/ ~reader.arg.readable
          \/ MarkerLines = {}
          \/ HasCountLine /\ ~CountIsInteger
          \/ CountIsInteger /\ Len(DataBlock) < DeclaredCount)
         => reader.out = None)

----------------------------------------------------------------------------
(* Claims about the aggregation of cases and studies (ReaderSpec) *)

\* the (time, variable) pairs of the case being parsed, those for which the
\* parser returned None, and the largest element count the parser returned
FieldsOfCase == (DOMAIN reader.raw) \X Variables
Gaps == {tf \in FieldsOfCase : reader.raw[tf[1]][tf[2]].none}
MaxObserved ==
    CHOOSE m \in 0..(MaxCells + 1) :
        /\ \E tf \in FieldsOfCase : Len(reader.raw[tf[1]][tf[2]].values) = m
        /\ \A tf \in FieldsOfCase : Len(reader.raw[tf[1]][tf[2]].values) <= m

\* C13: when the parser returned None for one (time, variable) field of a
\* case, parse_openfoam_case does not crash on it: it never ends with the
\* error that taking the length of that None raises.
C13_ParserFailureIsAGap ==
    reader.pc = "raised" /\ Cardinality(Gaps) = 1 => reader.out.err # "TypeError"

\* C16: within one case, every field the parser returned with exactly one
\* element holds, after the broadcast, that element at every one of as many
\* cells as the largest element count observed in the case; and all fields of
\* a dataset that is returned have the same cell count.
C16_UniformFieldsAreBroadcast ==
    /\ reader.pc \in {"broadcast", "dataset"} =>
           \A tf \in FieldsOfCase :
               Len(reader.raw[tf[1]][tf[2]].values) = 1 =>
                   reader.all_data[tf[1]][tf[2]].values =
                       [c \in 1..MaxObserved |-> reader.raw[tf[1]][tf[2]].values[1]]
    /\ reader.pc = "dataset" =>
           \A tf, sg \in FieldsOfCase :
               Len(reader.out.data[tf[2]][tf[1]]) = Len(reader.out.data[sg[2]][sg[1]])

C16_Witness ==
    /\ reader.pc = "dataset"
    /\ Len(reader.arg.times) = 2
    /\ MaxObserved >= 2
    /\ \E tf, sg \in FieldsOfCase :
           /\ Len(reader.raw[tf[1]][tf[2]].values) = 1
           /\ Len(reader.raw[sg[1]][sg[2]].values) = MaxObserved
           /\ Len(reader.out.data[tf[2]][tf[1]]) = MaxObserved

\* C14: reading a study raises whenever the case dataset of one sample
\* differs from another's in its time or cell extent; no combined dataset is
\* returned in which a sample was truncated, padded or reshaped.
C14_ShapeMismatchIsFatal ==
    reader.pc = "combined" =>
        /\ (\E i, j \in DOMAIN reader.arg :
               \/ Len(reader.arg[i].times) # Len(reader.arg[j].times)
               \/ reader.arg[i].mesh # reader.arg[j].mesh)
             => reader.out.err # "none"
        /\ reader.out.err = "none" =>
               \A i \in DOMAIN reader.out.samples : reader.out.samples[i].padded = {}

====
